---- MODULE Spec2Model ----
(***************************************************************************)
(* A model of the dh developer CLI: the two-tier TOML configuration store  *)
(* (src/dh/utils/config.py), the setup command (src/dh/commands/setup.py)  *)
(* and the database client (src/dh/utils/db.py).                           *)
(*                                                                         *)
(* A TOML file is modelled by its parsed content: a table is a function    *)
(* from the section names it holds to functions from the keys of that      *)
(* section to their values.  A file is a record [kind, data] whose kind is *)
(* "absent" (no such file), "malformed" (not TOML) or "table".             *)
(***************************************************************************)
EXTENDS Integers, Sequences, FiniteSets, TLC

\* ------------------------------------------------------------------------
\* Bounds of the model
\* ------------------------------------------------------------------------
\* at most this many fields of a Config passed to an operation differ from
\* their defaults
MaxSet == 1
\* at most this many keys in a configuration file that exists before the run
MaxInitKeys == 1
\* at most this many lines in a .gitignore that exists before the run
MaxGiLines == 1
\* at most this many tokens in a URL the project-ref pattern is applied to
MaxUrlLen == 7
\* the model stops running migrations once this many connections are open
MaxOpenConns == 2
\* the entries of a migrations directory
MaxFiles == 3
\* the lines of an e-mail list handed to sync_allowed_users
MaxEmails == 3
\* the longest list that is synced a second time
MaxRerunLines == 2

\* a string is written as a sequence of tokens where the model reads inside it
RECURSIVE Join(_)
Join(toks) == IF toks = << >> THEN "" ELSE Head(toks) \o Join(Tail(toks))

\* the strings a configuration value is drawn from, as tokens and as strings
StrToks == {<<"abc">>, <<"https://", "abc", ".", "supabase", ".", "co">>}
StrVals == {Join(u) : u \in StrToks}
TokensOf(str) == CHOOSE u \in StrToks : Join(u) = str
\* Python's None
None == "<None>"

Opt(S) == S \cup {None}

\* ------------------------------------------------------------------------
\* Config (pydantic models)
\* ------------------------------------------------------------------------
DbFields == {"url", "service_role_key", "anon_key", "password", "project_ref"}
ProjectFields == {"frontend_path", "backend_path"}
PrefFields == {"disable_detection_warnings", "auto_install_dependencies"}
Sections == {"project", "db", "preferences"}

DatabaseConfig == [DbFields -> Opt(StrVals)]
ProjectConfig == [ProjectFields -> Opt(StrVals)]
PreferencesConfig == [PrefFields -> BOOLEAN]
Config == [project : ProjectConfig, db : DatabaseConfig, preferences : PreferencesConfig]

DefaultDb == [f \in DbFields |-> None]
DefaultProject == [f \in ProjectFields |-> None]
DefaultPreferences ==
    [f \in PrefFields |-> IF f = "disable_detection_warnings" THEN FALSE ELSE TRUE]
DefaultConfig ==
    [project |-> DefaultProject, db |-> DefaultDb, preferences |-> DefaultPreferences]

\* the keys a section of the schema has
FieldsOf(s) ==
    IF s = "db" THEN DbFields ELSE IF s = "project" THEN ProjectFields ELSE PrefFields

\* ------------------------------------------------------------------------
\* TOML files
\* ------------------------------------------------------------------------
EmptyTable == [s \in {} |-> [k \in {} |-> None]]
AbsentFile == [kind |-> "absent", data |-> EmptyTable]
MalformedFile == [kind |-> "malformed", data |-> EmptyTable]
TableFile(t) == [kind |-> "table", data |-> t]

\* model_dump(exclude_none=True): the fields that are not None
DumpExcludeNone(m) == [f \in {g \in DOMAIN m : m[g] # None} |-> m[f]]
\* model_dump(): every field
DumpAll(m) == [f \in DOMAIN m |-> m[f]]

\* dict.update with the first one's value where both have the key
DictUpdate_BaseWins(base, over) ==
    [k \in (DOMAIN base) \cup (DOMAIN over) |->
        IF k \in DOMAIN base THEN base[k] ELSE over[k]]

\* dict.update: the keys of both, the second one's value where both have the key
DictUpdate(base, over) ==
    [k \in (DOMAIN base) \cup (DOMAIN over) |->
        IF k \in DOMAIN over THEN over[k] ELSE base[k]]

\* a merge that takes a section of the local file whole
MergeTables_Replace(config_data, local_data) ==
    [s \in (DOMAIN config_data) \cup (DOMAIN local_data) |->
        IF s \in DOMAIN local_data THEN local_data[s] ELSE config_data[s]]

\* the merge loop of load_config: a section of both files is updated key by
\* key, a section of one file only is taken as it is
MergeTables(config_data, local_data) ==
    [s \in (DOMAIN config_data) \cup (DOMAIN local_data) |->
        IF s \in DOMAIN local_data
        THEN IF s \in DOMAIN config_data
             THEN DictUpdate(config_data[s], local_data[s])
             ELSE local_data[s]
        ELSE config_data[s]]

\* Section(**d): a field the dict lacks takes its default
BuildSection(d, default) ==
    [f \in DOMAIN default |-> IF f \in DOMAIN d THEN d[f] ELSE default[f]]

\* Config(**config_data): a section the dict lacks is the default section
BuildConfig(t) ==
    [project |-> IF "project" \in DOMAIN t
                 THEN BuildSection(t["project"], DefaultProject) ELSE DefaultProject,
     db |-> IF "db" \in DOMAIN t
            THEN BuildSection(t["db"], DefaultDb) ELSE DefaultDb,
     preferences |-> IF "preferences" \in DOMAIN t
                     THEN BuildSection(t["preferences"], DefaultPreferences)
                     ELSE DefaultPreferences]

\* what an exception carries: its type and the file its message names.
\* tomllib.load raises TOMLDecodeError with a message that gives a line and a
\* column only; load_config lets it propagate as it is.
NoFile == "<no file>"
NoException == [type |-> "none", file |-> NoFile]
TOMLDecodeError == [type |-> "TOMLDecodeError", file |-> NoFile]

Returned(c) == [status |-> "ok", config |-> c, exc |-> NoException]
Raised(e) == [status |-> "raised", config |-> DefaultConfig, exc |-> e]
NoResult == [status |-> "none", config |-> DefaultConfig, exc |-> NoException]

\* a load_config that takes a .dh.local.toml it cannot parse for an empty one
load_config_LenientLocal(dh, local) ==
    IF dh.kind = "malformed"
    THEN [status |-> "raised", config |-> DefaultConfig,
          exc |-> [type |-> "TOMLDecodeError", file |-> NoFile]]
    ELSE [status |-> "ok",
          config |-> BuildConfig(IF dh.kind = "table" THEN dh.data ELSE EmptyTable),
          exc |-> NoException]

\* load_config(workspace_root): dh is the content of dh.toml, local that of
\* .dh.local.toml
load_config(dh, local) ==
    IF dh.kind = "malformed" THEN Raised(TOMLDecodeError)
    ELSE IF local.kind = "malformed" THEN Raised(TOMLDecodeError)
    ELSE LET config_data == IF dh.kind = "table" THEN dh.data ELSE EmptyTable
         IN  IF local.kind = "table"
             THEN Returned(BuildConfig(MergeTables(config_data, local.data)))
             ELSE Returned(BuildConfig(config_data))

\* a save_local_config that dumps the whole Config
save_local_config_All(config) ==
    [kind |-> "table",
     data |-> [s \in Sections |->
                 IF s = "preferences" THEN [f \in PrefFields |-> config.preferences[f]]
                 ELSE [f \in {g \in FieldsOf(s) : config[s][g] # None} |-> config[s][f]]]]

\* save_local_config: the content .dh.local.toml has afterwards
save_local_config(config) ==
    TableFile([s \in {"db"} |-> DumpExcludeNone(config.db)])

\* a save_project_config that dumps the db section too
save_project_config_WithDb(config) ==
    [kind |-> "table",
     data |-> [s \in Sections |->
                 IF s = "preferences" THEN [f \in PrefFields |-> config.preferences[f]]
                 ELSE [f \in {g \in FieldsOf(s) : config[s][g] # None} |-> config[s][f]]]]

\* a save_project_config that leaves the preferences out
save_project_config_NoPrefs(config) ==
    [kind |-> "table",
     data |-> [s \in {"project"} |->
                 [f \in {g \in ProjectFields : config.project[g] # None} |->
                     config.project[f]]]]

\* save_project_config: the content dh.toml has afterwards
save_project_config(config) ==
    TableFile([s \in {"project", "preferences"} |->
        IF s = "project" THEN DumpExcludeNone(config.project)
        ELSE DumpAll(config.preferences)])

\* ------------------------------------------------------------------------
\* Files that exist before the run
\* ------------------------------------------------------------------------
SchemaKeys == UNION {{<<s, k>> : k \in FieldsOf(s)} : s \in Sections}

\* the i-th value a key of section s may hold
ValAt(s, i) ==
    IF s = "preferences" THEN i = 1
    ELSE IF i = 1 THEN "abc" ELSE "https://abc.supabase.co"

\* the table that holds the keys K with the values chosen by v
TableOf(K, v) ==
    [s \in {p[1] : p \in K} |->
        [k \in {p[2] : p \in {q \in K : q[1] = s}} |-> ValAt(s, v[<<s, k>>])]]

InitTables ==
    UNION {{TableOf(K, v) : v \in [K -> {1, 2}]} :
              K \in {L \in SUBSET SchemaKeys : Cardinality(L) <= MaxInitKeys}}

\* the Config values the operations are called with: at most MaxSet fields
\* differ from the defaults
ArgConfigs ==
    UNION {{BuildConfig(TableOf(K, v)) : v \in [K -> {1, 2}]} :
              K \in {L \in SUBSET SchemaKeys : Cardinality(L) <= MaxSet}}

\* a configuration file before the run: none, not TOML, or a table of the
\* schema's keys (either file may hold any section)
InitFiles == {AbsentFile, MalformedFile} \cup {TableFile(t) : t \in InitTables}

\* ------------------------------------------------------------------------
\* The project-ref pattern, re.search(r"https://([^.]+)\.supabase\.co", url)
\* ------------------------------------------------------------------------
\* A URL is a sequence of tokens.  Each token is a string of characters; "."
\* is the only token that holds a dot, "https://" the only one that holds an
\* h, "supabase" and "co" the only ones that start with these letters, so a
\* match of the pattern on the characters is a match on the tokens and the
\* other way round.  "abc" stands for any other run of characters.
UrlTokens == {"https://", "abc", ".", "supabase", "co"}

\* the last position of the longest run of tokens other than "." that starts
\* after position i (i itself when the run is empty): what [^.]+ consumes.
\* The pattern goes on with a dot, so no shorter run can match.
RunEnd(url, i) ==
    CHOOSE e \in i..Len(url) :
        /\ \A k \in (i + 1)..e : url[k] # "."
        /\ e = Len(url) \/ url[e + 1] = "."

\* the pattern matches with "https://" at position i
MatchAt(url, i) ==
    /\ url[i] = "https://"
    /\ LET e == RunEnd(url, i)
       IN  /\ e > i
           /\ e + 4 <= Len(url)
           /\ url[e + 1] = "."
           /\ url[e + 2] = "supabase"
           /\ url[e + 3] = "."
           /\ url[e + 4] = "co"

\* re.match in place of re.search: the pattern is tried at the start only
ProjectRefOf_Match(url) ==
    IF Len(url) >= 1 /\ MatchAt(url, 1) THEN SubSeq(url, 2, RunEnd(url, 1)) ELSE << >>

\* match.group(1) of the leftmost match, << >> when re.search returns None
\* (a captured group is never empty)
ProjectRefOf(url) ==
    LET starts == {i \in 1..Len(url) : MatchAt(url, i)}
    IN  IF starts = {} THEN << >>
        ELSE LET i == CHOOSE j \in starts : \A k \in starts : j <= k
             IN  SubSeq(url, i + 1, RunEnd(url, i))

\* ------------------------------------------------------------------------
\* .gitignore
\* ------------------------------------------------------------------------
\* the file is its lines; GitignoreEntry is the line setup adds, the next two
\* are different lines that hold it as a substring, a pattern and a comment
GitignoreEntry == ".dh.local.toml"
GiLines == {GitignoreEntry, "/.dh.local.toml", "# .dh.local.toml", "node_modules"}
NoGitignore == [exists |-> FALSE, lines |-> << >>]
Gitignore(ls) == [exists |-> TRUE, lines |-> ls]
InitGitignores ==
    {NoGitignore} \cup
    {Gitignore(ls) : ls \in UNION {[1..n -> GiLines] : n \in 0..MaxGiLines}}

\* entry in existing: the entry is a substring of the file's text
EntryIn(ls) ==
    \E i \in 1..Len(ls) :
        ls[i] \in {GitignoreEntry, "/.dh.local.toml", "# .dh.local.toml"}

\* step 5 of setup: append the entry to a file that lacks it, create the file
\* when there is none
UpdateGitignore(g) ==
    IF g.exists
    THEN IF ~EntryIn(g.lines)
         THEN Gitignore(g.lines \o <<"", "# DevHand CLI", GitignoreEntry>>)
         ELSE g
    ELSE Gitignore(<<"# DevHand CLI", GitignoreEntry>>)

\* ------------------------------------------------------------------------
\* State
\* ------------------------------------------------------------------------
VARIABLES
    dhFile,      \* dh.toml, the version-controlled file
    localFile,   \* .dh.local.toml, the local-secret file
    gitignore,   \* .gitignore
    op,          \* the last operation: its name, its Config argument (for a
                 \* load_config, that of the operation before it), what
                 \* load_config returned or raised, the exit status
    pc,          \* where a running setup stands ("idle" when none runs)
    ctx,         \* the context of the running setup
    cmds         \* the package-manager commands the last command ran

configVars == <<dhFile, localFile, gitignore, op, pc, ctx, cmds>>

VARIABLES
    urlIn,       \* a URL whose project ref is looked for
    derived,     \* what the pattern gave for urlIn ("unset" before)
    args,        \* the arguments of the last DatabaseClient(...) call
    build,       \* how that call ended
    client,      \* the DatabaseClient
    hostRes,     \* what reading client.db_host gave
    openConns,   \* the database connections that are open
    call         \* the last run_migration_file call

dbVars == <<urlIn, derived, args, build, client, hostRes, openConns, call>>

VARIABLES
    mig,         \* the running or last run_migrations call
    committed,   \* the migration files the database holds as committed
    sync,        \* the running or last sync_allowed_users call
    backend,     \* the identity provider's users and the allowed_users table
    probe,       \* the last test_connection call
    val,         \* the last validate command
    prev         \* the sync_allowed_users call that the running one repeats

runVars == <<mig, committed, sync, backend, probe, val, prev>>
vars == <<dhFile, localFile, gitignore, op, pc, ctx, cmds,
          urlIn, derived, args, build, client, hostRes, openConns, call,
          mig, committed, sync, backend, probe, val, prev>>


\* what a command saw when it began: the projects get_context() detected and
\* the tools check_command_exists() found
Seen(has_frontend, has_backend, installed) ==
    [has_frontend |-> has_frontend, has_backend |-> has_backend, installed |-> installed]
NoSeen == Seen(FALSE, FALSE, {})

\* after is, for a load_config, the operation that came before it
Op(name, cfg, res, exit) ==
    [name |-> name, cfg |-> cfg, res |-> res, exit |-> exit, after |-> "none",
     seen |-> NoSeen]
NoCtx == [has_frontend |-> FALSE, has_backend |-> FALSE, configured |-> FALSE, db |-> DefaultDb]

\* ------------------------------------------------------------------------
\* ConfigStore operations
\* ------------------------------------------------------------------------
Load ==
    /\ pc = "idle"
    /\ op' = [Op("load_config", op.cfg, load_config(dhFile, localFile), 0)
                 EXCEPT !.after = IF op.name = "load_config" THEN op.after ELSE op.name]
    /\ cmds' = << >>
    /\ UNCHANGED <<dhFile, localFile, gitignore, pc, ctx>>
    /\ UNCHANGED dbVars
    /\ UNCHANGED runVars

SaveLocal ==
    /\ pc = "idle"
    /\ \E c \in ArgConfigs :
          /\ localFile' = save_local_config(c)
          /\ op' = Op("save_local_config", c, NoResult, 0)
    /\ cmds' = << >>
    /\ UNCHANGED <<dhFile, gitignore, pc, ctx>>
    /\ UNCHANGED dbVars
    /\ UNCHANGED runVars

SaveProject ==
    /\ pc = "idle"
    /\ \E c \in ArgConfigs :
          /\ dhFile' = save_project_config(c)
          /\ op' = Op("save_project_config", c, NoResult, 0)
    /\ cmds' = << >>
    /\ UNCHANGED <<localFile, gitignore, pc, ctx>>
    /\ UNCHANGED dbVars
    /\ UNCHANGED runVars

\* ------------------------------------------------------------------------
\* The setup command
\* ------------------------------------------------------------------------
\* match.group(1) if match else None
RefOrNone(url) ==
    LET ref == ProjectRefOf(url) IN IF ref = << >> THEN None ELSE Join(ref)

RanCommand(cmd, cwd, ok) == [cmd |-> cmd, cwd |-> cwd, ok |-> ok]

\* The Config of the context, ctx.config, is an input of setup.  Setup reads
\* it twice, in save_local_config after it has replaced the db section by the
\* answers, and in save_project_config; the model draws it where it is read.
\* ctx holds what the run keeps in between: the detected projects, and the db
\* section once step 3 has set it.

\* the answers prompt_text gives for the three secrets
SecretAnswers == {"abc"}

\* the tools step 2 asks check_command_exists() for and needs: node and npm
\* with a frontend, uv with a backend (docker is asked for too, and a missing
\* docker is a warning only); installed is what the calls made answered
RequiredTools(has_frontend, has_backend) ==
    (IF has_frontend THEN {"node", "npm"} ELSE {}) \cup
    (IF has_backend THEN {"uv"} ELSE {})

\* a setup that does not ask for uv
SetupStart_NoUvCheck ==
    /\ pc = "idle"
    /\ cmds' = << >>
    /\ \E has_frontend, has_backend \in BOOLEAN :
       \E installed \in SUBSET RequiredTools(has_frontend, has_backend) :
          LET tools_ok ==
                  has_frontend => ("node" \in installed /\ "npm" \in installed)
              seen == Seen(has_frontend, has_backend, installed)
          IN  IF (~has_frontend /\ ~has_backend) \/ ~tools_ok
              THEN /\ op' = [Op("setup", DefaultConfig, NoResult, 1) EXCEPT !.seen = seen]
                   /\ UNCHANGED <<pc, ctx>>
              ELSE /\ ctx' = [has_frontend |-> has_frontend, has_backend |-> has_backend,
                              configured |-> FALSE, db |-> DefaultDb]
                   /\ pc' = "db"
                   /\ op' = [Op("setup", DefaultConfig, NoResult, 0) EXCEPT !.seen = seen]
    /\ UNCHANGED <<dhFile, localFile, gitignore>>
    /\ UNCHANGED dbVars
    /\ UNCHANGED runVars

\* steps 1 and 2: what get_context detected and the installed tools are
\* inputs; setup exits with status 1 when no project is detected or a tool of
\* a detected project is missing
SetupStart ==
    /\ pc = "idle"
    /\ cmds' = << >>
    /\ \E has_frontend, has_backend \in BOOLEAN :
       \E installed \in SUBSET RequiredTools(has_frontend, has_backend) :
          LET tools_ok ==
                  /\ has_frontend => ("node" \in installed /\ "npm" \in installed)
                  /\ has_backend => "uv" \in installed
              seen == Seen(has_frontend, has_backend, installed)
          IN  IF (~has_frontend /\ ~has_backend) \/ ~tools_ok
              THEN /\ op' = [Op("setup", DefaultConfig, NoResult, 1) EXCEPT !.seen = seen]
                   /\ UNCHANGED <<pc, ctx>>
              ELSE /\ ctx' = [has_frontend |-> has_frontend, has_backend |-> has_backend,
                              configured |-> FALSE, db |-> DefaultDb]
                   /\ pc' = "db"
                   /\ op' = [Op("setup", DefaultConfig, NoResult, 0) EXCEPT !.seen = seen]
    /\ UNCHANGED <<dhFile, localFile, gitignore>>
    /\ UNCHANGED dbVars
    /\ UNCHANGED runVars

\* step 3: when the user confirms, the answers replace the db section of
\* ctx.config and save_local_config writes it
SetupDb ==
    /\ pc = "db"
    /\ \/ UNCHANGED <<ctx, localFile>>
       \/ \E db_url \in StrVals, service_role_key, anon_key, db_password \in SecretAnswers,
             c \in ArgConfigs :
             /\ ctx' = [ctx EXCEPT !.configured = TRUE, !.db =
                           [f \in DbFields |->
                               CASE f = "url" -> db_url
                                 [] f = "service_role_key" -> service_role_key
                                 [] f = "anon_key" -> anon_key
                                 [] f = "password" -> db_password
                                 [] f = "project_ref" -> RefOrNone(TokensOf(db_url))]]
             /\ localFile' = save_local_config([c EXCEPT !.db = ctx'.db])
    /\ pc' = "install"
    /\ UNCHANGED <<dhFile, gitignore, op, cmds>>
    /\ UNCHANGED dbVars
    /\ UNCHANGED runVars

\* step 4: a failing install is reported and setup goes on
SetupInstall ==
    /\ pc = "install"
    /\ \E fe_ok, be_ok \in BOOLEAN :
          cmds' = (IF ctx.has_frontend
                   THEN <<RanCommand("npm install", "frontend_path", fe_ok)>> ELSE << >>)
                  \o (IF ctx.has_backend
                      THEN <<RanCommand("uv sync --dev", "backend_path", be_ok)>> ELSE << >>)
    /\ pc' = "gitignore"
    /\ UNCHANGED <<dhFile, localFile, gitignore, op, ctx>>
    /\ UNCHANGED dbVars
    /\ UNCHANGED runVars

\* step 5
SetupGitignore ==
    /\ pc = "gitignore"
    /\ gitignore' = UpdateGitignore(gitignore)
    /\ pc' = "save"
    /\ UNCHANGED <<dhFile, localFile, op, ctx, cmds>>
    /\ UNCHANGED dbVars
    /\ UNCHANGED runVars

\* save_project_config(ctx.workspace_root, ctx.config), then setup returns
SetupSaveProject ==
    /\ pc = "save"
    /\ \E c \in ArgConfigs :
          LET config == IF ctx.configured THEN [c EXCEPT !.db = ctx.db] ELSE c
          IN  /\ dhFile' = save_project_config(config)
              /\ op' = Op("setup", config, NoResult, 0)
    /\ pc' = "idle"
    /\ ctx' = NoCtx
    /\ UNCHANGED <<localFile, gitignore, cmds>>
    /\ UNCHANGED dbVars
    /\ UNCHANGED runVars

\* ------------------------------------------------------------------------
\* The install command
\* ------------------------------------------------------------------------
InstallResult(ran, exit) == [cmds |-> ran, exit |-> exit]

\* an install that reports a failed frontend install and goes on, as step 4
\* of setup does
install_BestEffort(has_frontend, has_backend, fe_ok, be_ok) ==
    InstallResult(
        (IF has_frontend
         THEN <<RanCommand("npm install", "frontend_path", fe_ok)>> ELSE << >>)
        \o (IF has_backend
            THEN <<RanCommand("uv sync --dev", "backend_path", be_ok)>> ELSE << >>),
        IF has_backend /\ ~be_ok THEN 1 ELSE 0)

\* install(): fe_ok and be_ok say whether run_command() returns or raises;
\* the result is the commands run and the exit status
install(has_frontend, has_backend, fe_ok, be_ok) ==
    LET fe == IF has_frontend
              THEN <<RanCommand("npm install", "frontend_path", fe_ok)>> ELSE << >>
        be == IF has_backend
              THEN <<RanCommand("uv sync --dev", "backend_path", be_ok)>> ELSE << >>
    IN  IF has_frontend /\ ~fe_ok THEN InstallResult(fe, 1)
        ELSE IF has_backend /\ ~be_ok THEN InstallResult(fe \o be, 1)
        ELSE InstallResult(fe \o be, 0)

\* the install command is run
Install ==
    /\ pc = "idle"
    /\ \E has_frontend, has_backend, fe_ok, be_ok \in BOOLEAN :
          LET r == install(has_frontend, has_backend, fe_ok, be_ok)
          IN  /\ cmds' = r.cmds
              /\ op' = [Op("install", DefaultConfig, NoResult, r.exit)
                           EXCEPT !.seen = Seen(has_frontend, has_backend, {})]
    /\ UNCHANGED <<dhFile, localFile, gitignore, pc, ctx>>
    /\ UNCHANGED dbVars
    /\ UNCHANGED runVars

\* ------------------------------------------------------------------------
\* DatabaseClient
\* ------------------------------------------------------------------------
\* Python's truth value of an Optional[str]
Truthy(x) == x # None /\ x # ""

NoClient ==
    [built |-> FALSE, url |-> << >>, db_password |-> None, project_ref |-> None]

\* an __init__ that raises when it finds no project ref
DatabaseClientInit_Eager(url, db_password, project_ref) ==
    LET ref == IF ~Truthy(project_ref) THEN RefOrNone(url) ELSE project_ref
    IN  IF ref = None THEN NoClient
        ELSE [built |-> TRUE, url |-> url, db_password |-> db_password,
              project_ref |-> ref]

\* DatabaseClient.__init__ up to the call of create_client: the explicit
\* project_ref when it is truthy, else the one the pattern finds in the URL
DatabaseClientInit(url, db_password, project_ref) ==
    [built |-> TRUE,
     url |-> url,
     db_password |-> db_password,
     project_ref |-> IF ~Truthy(project_ref) THEN RefOrNone(url) ELSE project_ref]

\* the db_host property
db_host(self) ==
    IF ~Truthy(self.project_ref)
    THEN [status |-> "raised", value |-> "", exc |-> "ValueError: Project ref not available"]
    ELSE [status |-> "ok", value |-> "db." \o self.project_ref \o ".supabase.co",
          exc |-> ""]

\* what the database server lets a migration do: every step works, or the
\* named step raises
Outcomes == {"ok", "connect_raises", "execute_raises", "commit_raises"}
\* what a migration file lets run_migration_file do: it is read and the
\* database decides, or reading it raises
FileOutcomes == Outcomes \cup {"read_raises"}

Event(ev, what) == [ev |-> ev, what |-> what]
\* status is "returned", or "raised" when the call ends in an exception
CallResult(file, ret, msg, events, left_open) ==
    [name |-> "run_migration_file", file |-> file, status |-> "returned",
     ret |-> ret, msg |-> msg, events |-> events, left_open |-> left_open]
NoCall ==
    [name |-> "none", file |-> "", status |-> "none", ret |-> FALSE, msg |-> "",
     events |-> << >>, left_open |-> 0]

\* the try block of run_migration_file: connect, execute, commit, close.  An
\* exception of any step ends the block in the except clause, which prints and
\* returns False; conn.close() is the statement after conn.commit() and
\* nothing else closes the connection.
ConnectAndRun(self, file, outcome) ==
    LET host == db_host(self)
    IN  IF host.status = "raised"
        THEN CallResult(file, FALSE, "Migration failed: Project ref not available",
                        << >>, 0)
        ELSE IF outcome = "connect_raises"
        THEN CallResult(file, FALSE, "Migration failed: connect",
                        <<Event("connect", host.value)>>, 0)
        ELSE IF outcome = "execute_raises"
        THEN CallResult(file, FALSE, "Migration failed: execute",
                        <<Event("connect", host.value), Event("execute", file)>>, 1)
        ELSE IF outcome = "commit_raises"
        THEN CallResult(file, FALSE, "Migration failed: commit",
                        <<Event("connect", host.value), Event("execute", file),
                          Event("commit", file)>>, 1)
        ELSE CallResult(file, TRUE, "Migration executed",
                        <<Event("connect", host.value), Event("execute", file),
                          Event("commit", file), Event("close", host.value)>>, 0)

\* a run_migration_file without the password check
run_migration_file_NoPasswordCheck(self, file, exists, outcome) ==
    IF ~exists
    THEN CallResult(file, FALSE, "Migration file not found", << >>, 0)
    ELSE IF outcome = "read_raises"
    THEN [CallResult(file, FALSE, "OSError", << >>, 0) EXCEPT !.status = "raised"]
    ELSE ConnectAndRun(self, file, outcome)

\* run_migration_file(migration_path): exists tells whether the file is there.
\* The file is opened and read before the try block, so that an entry that
\* cannot be read (a directory, a file without read permission) ends the call
\* in the OSError of open().
run_migration_file(self, file, exists, outcome) ==
    IF ~Truthy(self.db_password)
    THEN CallResult(file, FALSE, "Database password required for migrations", << >>, 0)
    ELSE IF ~exists
    THEN CallResult(file, FALSE, "Migration file not found", << >>, 0)
    ELSE IF outcome = "read_raises"
    THEN [CallResult(file, FALSE, "OSError", << >>, 0) EXCEPT !.status = "raised"]
    ELSE ConnectAndRun(self, file, outcome)

\* ------------------------------------------------------------------------
\* Idle values of the state
\* ------------------------------------------------------------------------
NoArgs == [url |-> << >>, db_password |-> None, project_ref |-> None, created |-> FALSE]
NoHost == [status |-> "none", value |-> "", exc |-> ""]

IdleConfig ==
    /\ dhFile = AbsentFile
    /\ localFile = AbsentFile
    /\ gitignore = NoGitignore
    /\ op = Op("none", DefaultConfig, NoResult, 0)
    /\ pc = "idle"
    /\ ctx = NoCtx
    /\ cmds = << >>

IdleDb ==
    /\ urlIn = << >>
    /\ derived = "unset"
    /\ args = NoArgs
    /\ build = "none"
    /\ client = NoClient
    /\ hostRes = NoHost
    /\ openConns = 0
    /\ call = NoCall


\* ------------------------------------------------------------------------
\* Database-side actions
\* ------------------------------------------------------------------------
Passwords == {None, "", "pw"}
ExplicitRefs == {None, "", "ref1"}
MigNames == {"001.sql", "002.sql"}

\* the URLs of at most n tokens
UrlsUpTo(n) == UNION {[1..k -> UrlTokens] : k \in 0..n}

\* the pattern is applied to urlIn
DeriveRef ==
    /\ derived = "unset"
    /\ derived' = RefOrNone(urlIn)
    /\ UNCHANGED <<urlIn, args, build, client, hostRes, openConns, call>>
    /\ UNCHANGED configVars
    /\ UNCHANGED runVars

\* DatabaseClient(url, secret_key, db_password, project_ref) in a new process:
\* create_client, the last statement of __init__, returns or raises (created)
BuildClient ==
    /\ \E url \in StrToks, db_password \in Passwords, project_ref \in ExplicitRefs,
          created \in BOOLEAN :
          LET self == DatabaseClientInit(url, db_password, project_ref)
          IN  /\ args' = [url |-> url, db_password |-> db_password,
                          project_ref |-> project_ref, created |-> created]
              /\ IF self.built /\ created
                 THEN /\ client' = self
                      /\ build' = "built"
                 ELSE /\ client' = NoClient
                      /\ build' = IF self.built THEN "create_client raised"
                                  ELSE "__init__ raised"
    /\ hostRes' = NoHost
    /\ openConns' = 0
    /\ call' = NoCall
    /\ UNCHANGED <<urlIn, derived>>
    /\ UNCHANGED configVars
    /\ UNCHANGED runVars

\* client.db_host is read
ResolveHost ==
    /\ client.built
    /\ hostRes' = db_host(client)
    /\ UNCHANGED <<urlIn, derived, args, build, client, openConns, call>>
    /\ UNCHANGED configVars
    /\ UNCHANGED runVars

\* client.run_migration_file(path)
ApplyOne ==
    /\ client.built
    /\ openConns < MaxOpenConns
    /\ \E file \in MigNames, exists \in BOOLEAN, outcome \in FileOutcomes :
          /\ call' = run_migration_file(client, file, exists, outcome)
          /\ openConns' = openConns + call'.left_open
    /\ UNCHANGED <<urlIn, derived, args, build, client, hostRes>>
    /\ UNCHANGED configVars
    /\ UNCHANGED runVars

\* ------------------------------------------------------------------------
\* run_migrations
\* ------------------------------------------------------------------------
\* A file name is the sequence of its characters.  sorted() orders the Path
\* values of one directory by their names, character by character, by code
\* point.
CodePoint(c) ==
    CASE c = "-" -> 45 [] c = "." -> 46 [] c = "0" -> 48 [] c = "1" -> 49
      [] c = "2" -> 50 [] c = "l" -> 108 [] c = "q" -> 113 [] c = "s" -> 115
      [] c = "t" -> 116 [] c = "x" -> 120

SqlSuffix == <<".", "s", "q", "l">>
\* 1.sql, 10.sql, 1-0.sql, 2.sql and 1.txt
DirNames ==
    {<<"1">> \o SqlSuffix, <<"1", "0">> \o SqlSuffix, <<"1", "-", "0">> \o SqlSuffix,
     <<"2">> \o SqlSuffix, <<"1", ".", "t", "x", "t">>}

NoDir == [exists |-> FALSE, entries |-> {}]
Dir(es) == [exists |-> TRUE, entries |-> es]
\* the directories of at most MaxFiles entries, and the missing directory
Dirs ==
    {NoDir} \cup {Dir(es) : es \in {S \in SUBSET DirNames : Cardinality(S) <= MaxFiles}}

\* migrations_dir.glob("*.sql")
GlobSql(dir) ==
    {e \in dir.entries :
        /\ Len(e) >= Len(SqlSuffix)
        /\ SubSeq(e, Len(e) - Len(SqlSuffix) + 1, Len(e)) = SqlSuffix}

\* a < b for two names
RECURSIVE NameLess(_, _)
NameLess(a, b) ==
    IF b = << >> THEN FALSE
    ELSE IF a = << >> THEN TRUE
    ELSE IF Head(a) = Head(b) THEN NameLess(Tail(a), Tail(b))
    ELSE CodePoint(Head(a)) < CodePoint(Head(b))

\* sorted(...)
RECURSIVE sorted(_)
sorted(S) ==
    IF S = {} THEN << >>
    ELSE LET m == CHOOSE x \in S : \A y \in S \ {x} : NameLess(x, y)
         IN  <<m>> \o sorted(S \ {m})

\* a run_migrations call: where it stands, how it ended, the files it found,
\* the index of the file the loop is at, and the run_migration_file calls made
NoMig ==
    [pc |-> "idle", status |-> "none", ret |-> FALSE, msg |-> "", dir |-> NoDir,
     sql_files |-> << >>, i |-> 0, success |-> TRUE, calls |-> << >>]

\* a run_migrations that takes a directory without .sql files for a failure
run_migrations_begin_EmptyFails(dir) ==
    LET sql_files == sorted(GlobSql(dir))
    IN  IF ~dir.exists \/ sql_files = << >>
        THEN [NoMig EXCEPT !.pc = "done", !.status = "returned", !.ret = FALSE,
                           !.msg = "Migrations directory not found", !.dir = dir]
        ELSE [NoMig EXCEPT !.pc = "loop", !.dir = dir, !.sql_files = sql_files,
                           !.i = 1, !.msg = "Found migration(s)"]

\* run_migrations up to the loop
run_migrations_begin(dir) ==
    IF ~dir.exists
    THEN [NoMig EXCEPT !.pc = "done", !.status = "returned", !.ret = FALSE,
                       !.msg = "Migrations directory not found", !.dir = dir]
    ELSE LET sql_files == sorted(GlobSql(dir))
         IN  IF sql_files = << >>
             THEN [NoMig EXCEPT !.pc = "done", !.status = "returned", !.ret = TRUE,
                                !.msg = "No migration files found", !.dir = dir]
             ELSE [NoMig EXCEPT !.pc = "loop", !.dir = dir, !.sql_files = sql_files,
                                !.i = 1, !.msg = "Found migration(s)"]

\* a loop body without the break
AfterFile_KeepGoing(m, r) ==
    LET m1 == [m EXCEPT !.calls = Append(@, r),
                        !.success = IF r.ret THEN @ ELSE FALSE]
    IN  IF r.status = "raised"
        THEN [m1 EXCEPT !.pc = "done", !.status = "raised"]
        ELSE IF m.i = Len(m.sql_files)
        THEN [m1 EXCEPT !.pc = "done", !.status = "returned", !.ret = m1.success]
        ELSE [m1 EXCEPT !.i = @ + 1]

\* the loop body, for the result r of run_migration_file on file m.i: an
\* exception leaves run_migrations, a False result breaks out of the loop, and
\* after the loop success is returned
AfterFile(m, r) ==
    LET m1 == [m EXCEPT !.calls = Append(@, r)]
    IN  IF r.status = "raised"
        THEN [m1 EXCEPT !.pc = "done", !.status = "raised"]
        ELSE IF ~r.ret
        THEN [m1 EXCEPT !.pc = "done", !.status = "returned", !.success = FALSE,
                        !.ret = FALSE]
        ELSE IF m.i = Len(m.sql_files)
        THEN [m1 EXCEPT !.pc = "done", !.status = "returned", !.ret = m1.success]
        ELSE [m1 EXCEPT !.i = @ + 1]

\* r made the step ev
HasEvent(r, ev) == \E k \in 1..Len(r.events) : r.events[k].ev = ev

\* a database that loses the earlier files when a file fails
CommittedAfter_Rollback(done, file, r, applied) ==
    IF r.ret THEN done \cup {file} ELSE {}

\* what the database holds after the call r on file: the file is committed
\* when conn.commit() returned, and may be when it raised (applied); nothing
\* the tool does takes a committed file back
CommittedAfter(done, file, r, applied) ==
    IF r.ret \/ (HasEvent(r, "commit") /\ applied)
    THEN done \cup {file}
    ELSE done

\* run_migrations(migrations_dir) is called, in a process that does not run
\* sync_allowed_users, on a database that holds none of the migrations
MigStart ==
    /\ client.built
    /\ mig.pc # "loop"
    /\ sync.pc = "idle"
    /\ probe.name = "none"
    /\ \E dir \in Dirs : mig' = run_migrations_begin(dir)
    /\ committed' = {}
    /\ openConns' = 0
    /\ call' = NoCall
    /\ UNCHANGED <<urlIn, derived, args, build, client, hostRes>>
    /\ UNCHANGED <<sync, backend, probe, val, prev>>
    /\ UNCHANGED configVars

\* one turn of the loop: run_migration_file on the next file.  The file may
\* have gone since the listing, reading it or a step at the database may
\* raise; a commit that raises may or may not have taken effect (applied).
MigStep ==
    /\ mig.pc = "loop"
    /\ \E exists \in BOOLEAN, outcome \in FileOutcomes, applied \in BOOLEAN :
          LET file == mig.sql_files[mig.i]
              r == run_migration_file(client, file, exists, outcome)
          IN  /\ call' = r
              /\ mig' = AfterFile(mig, r)
              /\ openConns' = openConns + r.left_open
              /\ committed' = CommittedAfter(committed, file, r, applied)
    /\ UNCHANGED <<urlIn, derived, args, build, client, hostRes>>
    /\ UNCHANGED <<sync, backend, probe, val, prev>>
    /\ UNCHANGED configVars

\* ------------------------------------------------------------------------
\* test_connection, get_user_by_email, insert_allowed_user, sync_allowed_users
\* ------------------------------------------------------------------------
\* A line of the e-mail list is a sequence of tokens: a blank, a # or an
\* address.
Blank == " "
Lines ==
    {<< >>, <<Blank>>, <<Blank, "#", "a@x.com">>, <<"a@x.com">>,
     <<Blank, "a@x.com", Blank>>, <<"b@x.com">>}

\* str.strip()
RECURSIVE LStrip(_)
LStrip(line) ==
    IF line # << >> /\ Head(line) = Blank THEN LStrip(Tail(line)) ELSE line
RECURSIVE RStrip(_)
RStrip(line) ==
    IF line # << >> /\ line[Len(line)] = Blank
    THEN RStrip(SubSeq(line, 1, Len(line) - 1))
    ELSE line
Strip(line) == RStrip(LStrip(line))

\* the lines the loop does not skip: not (not email or email.startswith("#"))
Eligible(line) ==
    LET email == Strip(line) IN email # << >> /\ Head(email) # "#"

\* the users of the identity provider
User(id, email) == [id |-> id, email |-> email]
Users == {User("u1", <<"a@x.com">>), User("u2", <<"b@x.com">>)}
UserIds == {u.id : u \in Users}
NoUser == User(None, << >>)

\* the backend: the users the identity provider lists, the user ids in the
\* allowed_users table, and the user ids whose insert the table refuses
\* every time (a constraint other than the key)
Backend(users, allow, rejects) == [users |-> users, allow |-> allow, rejects |-> rejects]
Backends ==
    {Backend(us, al, rj) :
        us \in SUBSET Users, al \in SUBSET UserIds, rj \in {{}, {"u2"}}}

\* the text of an exception is a sequence of words; these are the texts of
\* errors that are not violations of the key of allowed_users
OtherTexts ==
    {<<"Resource", "Already", "Exists">>,
     <<"permission", "denied">>}
Ok == [ok |-> TRUE, kind |-> "none", text |-> << >>]
Err(kind, text) == [ok |-> FALSE, kind |-> kind, text |-> text]
UniqueViolation ==
    Err("unique_violation",
        <<"duplicate", "key", "value", "violates", "unique", "constraint">>)

\* str.lower() of a word
LowerWord(w) ==
    CASE w = "Resource" -> "resource"
      [] w = "Already" -> "already"
      [] w = "Exists" -> "exists"
      [] OTHER -> w
Lower(text) == [k \in 1..Len(text) |-> LowerWord(text[k])]

\* phrase in text
Contains(text, phrase) ==
    \E k \in 0..(Len(text) - Len(phrase)) :
        SubSeq(text, k + 1, k + Len(phrase)) = phrase

\* a remote call of the log
Remote(name, arg, ok) == [call |-> name, arg |-> arg, ok |-> ok]

\* a direct call of the client: its name, how it ended, the remote calls it
\* made, and for an insert the user id, whether the table held it before, and
\* what the insert did
ProbeResult(name, ret, calls) ==
    [name |-> name, status |-> "returned", ret |-> ret, calls |-> calls,
     arg |-> None, present |-> FALSE, resp |-> Ok]
NoProbe ==
    [name |-> "none", status |-> "none", ret |-> FALSE, calls |-> << >>,
     arg |-> None, present |-> FALSE, resp |-> Ok]

\* a test_connection that reports success whatever list_users() did
test_connection_Optimistic(listing) ==
    ProbeResult("test_connection", TRUE, <<Remote("list_users", << >>, listing = "ok")>>)

\* test_connection(): listing is what list_users() does, "ok" or "raises"
test_connection(listing) ==
    ProbeResult("test_connection", listing = "ok",
                <<Remote("list_users", << >>, listing = "ok")>>)

\* get_user_by_email(email): the first listed user with that e-mail, None when
\* there is none or when list_users() raises
get_user_by_email(b, email, listing) ==
    IF listing = "raises" THEN NoUser
    ELSE IF \E u \in b.users : u.email = email
    THEN CHOOSE u \in b.users : u.email = email
    ELSE NoUser

\* an insert_allowed_user that reports every error as a failure
insert_allowed_user_Strict(resp) == resp.ok

\* insert_allowed_user(user_id), where resp is what the insert did
insert_allowed_user(resp) ==
    IF resp.ok THEN TRUE
    ELSE IF \/ Contains(Lower(resp.text), <<"duplicate", "key">>)
            \/ Contains(Lower(resp.text), <<"already", "exists">>)
    THEN TRUE
    ELSE FALSE

\* what the table answers to an insert of id when nothing else goes wrong
Respond(b, allow, id) ==
    IF id \in allow THEN UniqueViolation
    ELSE IF id \in b.rejects THEN Err("other", <<"permission", "denied">>)
    ELSE Ok
\* what an insert of id can do: that, or an error of some other kind
InsertResponses(b, allow, id) ==
    {Respond(b, allow, id)} \cup {Err("other", t) : t \in OtherTexts}

\* a sync_allowed_users call: the lines handed to the loop so far, the
\* counters, the remote calls made, the allowed_users table when the call
\* began, and whether every remote call so far did what the backend does when
\* nothing else goes wrong
Stats(a, s, n) == [added |-> a, skipped |-> s, not_found |-> n]
NoSync ==
    [pc |-> "idle", status |-> "none", lines |-> << >>, stats |-> Stats(0, 0, 0),
     log |-> << >>, allow0 |-> {}, clean |-> TRUE]

\* a loop body that counts a failed insert as skipped and as not found
ProcessLine_DoubleCount(s, b, line, listing, resp) ==
    LET email == Strip(line)
        s1 == [s EXCEPT !.lines = Append(@, line)]
    IN  IF ~Eligible(line) THEN s1
        ELSE LET user == get_user_by_email(b, email, listing)
                 s2 == [s1 EXCEPT !.log = Append(@, Remote("list_users", email, listing = "ok"))]
             IN  IF user = NoUser
                 THEN [s2 EXCEPT !.stats.not_found = @ + 1]
                 ELSE LET s3 == [s2 EXCEPT !.log = Append(@, Remote("insert", user.id, resp.ok))]
                      IN  IF insert_allowed_user(resp)
                          THEN [s3 EXCEPT !.stats.added = @ + 1]
                          ELSE [s3 EXCEPT !.stats.skipped = @ + 1,
                                          !.stats.not_found = @ + 1]

\* a loop body that lets the exception of a failed lookup end the call
ProcessLine_Raising(s, b, line, listing, resp) ==
    LET email == Strip(line)
        s1 == [s EXCEPT !.lines = Append(@, line)]
    IN  IF ~Eligible(line) THEN s1
        ELSE LET user == get_user_by_email(b, email, listing)
                 s2 == [s1 EXCEPT !.log = Append(@, Remote("list_users", email, listing = "ok"))]
             IN  IF listing = "raises"
                 THEN [s2 EXCEPT !.pc = "done", !.status = "raised"]
                 ELSE IF user = NoUser
                 THEN [s2 EXCEPT !.stats.not_found = @ + 1]
                 ELSE LET s3 == [s2 EXCEPT !.log = Append(@, Remote("insert", user.id, resp.ok))]
                      IN  IF insert_allowed_user(resp)
                          THEN [s3 EXCEPT !.stats.added = @ + 1]
                          ELSE [s3 EXCEPT !.stats.skipped = @ + 1]

\* a loop body that does nothing more once a user was not found
ProcessLine_Abort(s, b, line, listing, resp) ==
    LET email == Strip(line)
        s1 == [s EXCEPT !.lines = Append(@, line)]
    IN  IF ~Eligible(line) \/ s.stats.not_found > 0 THEN s1
        ELSE LET user == get_user_by_email(b, email, listing)
                 s2 == [s1 EXCEPT !.log = Append(@, Remote("list_users", email, listing = "ok"))]
             IN  IF user = NoUser
                 THEN [s2 EXCEPT !.stats.not_found = @ + 1]
                 ELSE LET s3 == [s2 EXCEPT !.log = Append(@, Remote("insert", user.id, resp.ok))]
                      IN  IF insert_allowed_user(resp)
                          THEN [s3 EXCEPT !.stats.added = @ + 1]
                          ELSE [s3 EXCEPT !.stats.skipped = @ + 1]

\* a loop body that inserts a second time when the first insert failed
ProcessLine_Retry(s, b, line, listing, resp) ==
    LET email == Strip(line)
        s1 == [s EXCEPT !.lines = Append(@, line)]
    IN  IF ~Eligible(line) THEN s1
        ELSE LET user == get_user_by_email(b, email, listing)
                 s2 == [s1 EXCEPT !.log = Append(@, Remote("list_users", email, listing = "ok"))]
             IN  IF user = NoUser
                 THEN [s2 EXCEPT !.stats.not_found = @ + 1]
                 ELSE LET s3 == [s2 EXCEPT !.log = Append(@, Remote("insert", user.id, resp.ok))]
                      IN  IF insert_allowed_user(resp)
                          THEN [s3 EXCEPT !.stats.added = @ + 1]
                          ELSE [s3 EXCEPT !.stats.skipped = @ + 1,
                                          !.log = Append(@, Remote("insert", user.id, resp.ok))]

\* the loop body of sync_allowed_users for one line: listing is what
\* list_users() does and resp what the insert does, when they are called
ProcessLine(s, b, line, listing, resp) ==
    LET email == Strip(line)
        s1 == [s EXCEPT !.lines = Append(@, line)]
    IN  IF ~Eligible(line) THEN s1
        ELSE LET user == get_user_by_email(b, email, listing)
                 s2 == [s1 EXCEPT !.log = Append(@, Remote("list_users", email, listing = "ok"))]
             IN  IF user = NoUser
                 THEN [s2 EXCEPT !.stats.not_found = @ + 1]
                 ELSE LET s3 == [s2 EXCEPT !.log = Append(@, Remote("insert", user.id, resp.ok))]
                      IN  IF insert_allowed_user(resp)
                          THEN [s3 EXCEPT !.stats.added = @ + 1]
                          ELSE [s3 EXCEPT !.stats.skipped = @ + 1]

\* the table after an insert of id that did resp
AfterInsert(b, id, resp) ==
    IF resp.ok THEN [b EXCEPT !.allow = @ \cup {id}] ELSE b

\* sync_allowed_users(emails) on a backend where every call does what the
\* backend does when nothing else goes wrong
RECURSIVE RunLines(_, _, _)
RunLines(s, b, emails) ==
    IF emails = << >> THEN s
    ELSE LET line == Head(emails)
             user == get_user_by_email(b, Strip(line), "ok")
             called == Eligible(line) /\ user # NoUser
             resp == IF called THEN Respond(b, b.allow, user.id) ELSE Ok
         IN  RunLines(ProcessLine(s, b, line, "ok", resp),
                      IF called THEN AfterInsert(b, user.id, resp) ELSE b,
                      Tail(emails))

\* test_connection() is called
TestConnection ==
    /\ client.built
    /\ sync.pc = "idle"
    /\ mig.pc = "idle"
    /\ \E listing \in {"ok", "raises"} : probe' = test_connection(listing)
    /\ UNCHANGED <<mig, committed, sync, backend, val, prev>>
    /\ UNCHANGED dbVars
    /\ UNCHANGED configVars

\* insert_allowed_user(user_id) is called
GrantAccess ==
    /\ client.built
    /\ sync.pc = "idle"
    /\ mig.pc = "idle"
    /\ \E id \in UserIds :
          \E resp \in InsertResponses(backend, backend.allow, id) :
             /\ probe' = [ProbeResult("insert_allowed_user", insert_allowed_user(resp),
                                      <<Remote("insert", id, resp.ok)>>)
                             EXCEPT !.arg = id, !.present = (id \in backend.allow),
                                    !.resp = resp]
             /\ backend' = AfterInsert(backend, id, resp)
    /\ UNCHANGED <<mig, committed, sync, val, prev>>
    /\ UNCHANGED dbVars
    /\ UNCHANGED configVars

\* sync_allowed_users(emails) is called, in a process that does not run
\* run_migrations; the backend is in any state
SyncStart ==
    /\ client.built
    /\ sync.pc = "idle"
    /\ mig.pc = "idle"
    /\ \E b \in Backends :
          /\ backend' = b
          /\ sync' = [NoSync EXCEPT !.pc = "loop", !.allow0 = b.allow]
    /\ probe' = NoProbe
    /\ UNCHANGED <<mig, committed, val>>
    /\ prev' = NoSync
    /\ UNCHANGED dbVars
    /\ UNCHANGED configVars

\* one turn of the loop, for the next line of the list
SyncLine ==
    /\ sync.pc = "loop"
    /\ Len(sync.lines) < MaxEmails
    /\ \E line \in Lines, listing \in {"ok", "raises"} :
          LET user == get_user_by_email(backend, Strip(line), listing)
              called == Eligible(line) /\ user # NoUser
          IN  \E resp \in IF called
                          THEN InsertResponses(backend, backend.allow, user.id)
                          ELSE {Ok} :
                 /\ sync' = [ProcessLine(sync, backend, line, listing, resp)
                                EXCEPT !.clean =
                                    /\ @
                                    /\ Eligible(line) => listing = "ok"
                                    /\ called => resp = Respond(backend, backend.allow, user.id)]
                 /\ backend' = IF called THEN AfterInsert(backend, user.id, resp)
                               ELSE backend
    /\ UNCHANGED <<mig, committed, probe, val, prev>>
    /\ UNCHANGED dbVars
    /\ UNCHANGED configVars

\* the list is at its end: return stats
SyncReturn ==
    /\ sync.pc = "loop"
    /\ sync' = [sync EXCEPT !.pc = "done", !.status = "returned"]
    /\ UNCHANGED <<mig, committed, backend, probe, val, prev>>
    /\ UNCHANGED dbVars
    /\ UNCHANGED configVars

\* sync_allowed_users(emails) is called a second time with the list of the
\* call that has returned; the users the identity provider lists are the
\* same and allowed_users is as the first call left it
SyncAgain ==
    /\ client.built
    /\ sync.pc = "done"
    /\ sync.status = "returned"
    /\ prev.pc = "idle"
    /\ mig.pc = "idle"
    /\ Len(sync.lines) <= MaxRerunLines
    /\ prev' = sync
    /\ sync' = [NoSync EXCEPT !.pc = "again", !.allow0 = backend.allow]
    /\ UNCHANGED <<mig, committed, backend, probe, val>>
    /\ UNCHANGED dbVars
    /\ UNCHANGED configVars

\* one turn of the loop of the second call, for the next line of that list
SyncAgainLine ==
    /\ sync.pc = "again"
    /\ Len(sync.lines) < Len(prev.lines)
    /\ \E listing \in {"ok", "raises"} :
          LET line == prev.lines[Len(sync.lines) + 1]
              user == get_user_by_email(backend, Strip(line), listing)
              called == Eligible(line) /\ user # NoUser
          IN  \E resp \in IF called
                          THEN InsertResponses(backend, backend.allow, user.id)
                          ELSE {Ok} :
                 /\ sync' = [ProcessLine(sync, backend, line, listing, resp)
                                EXCEPT !.clean =
                                    /\ @
                                    /\ Eligible(line) => listing = "ok"
                                    /\ called => resp = Respond(backend, backend.allow, user.id)]
                 /\ backend' = IF called THEN AfterInsert(backend, user.id, resp)
                               ELSE backend
    /\ UNCHANGED <<mig, committed, probe, val, prev>>
    /\ UNCHANGED dbVars
    /\ UNCHANGED configVars

\* the second call is at the end of the list: return stats
SyncAgainReturn ==
    /\ sync.pc = "again"
    /\ Len(sync.lines) = Len(prev.lines)
    /\ sync' = [sync EXCEPT !.pc = "done", !.status = "returned"]
    /\ UNCHANGED <<mig, committed, backend, probe, val, prev>>
    /\ UNCHANGED dbVars
    /\ UNCHANGED configVars

\* ------------------------------------------------------------------------
\* The validate command
\* ------------------------------------------------------------------------
Tools == {"node", "npm", "python3", "uv", "docker"}
Paths == {"node_modules", "package.json", ".venv", "pyproject.toml"}
\* what validate reads: the context, the commands that exist, the paths that
\* exist, and what the backend does when the client is created and used
ValInputs ==
    [has_frontend : BOOLEAN, has_backend : BOOLEAN,
     tools : SUBSET Tools, paths : SUBSET Paths,
     url : {None, "", "https://abc.supabase.co"},
     service_role_key : {None, "", "abc"},
     created : BOOLEAN, listing : {"ok", "raises"}]

IssueIf(cond, text) == IF cond THEN <<text>> ELSE << >>

\* the frontend block
FrontendIssues(inp) ==
    IF ~inp.has_frontend THEN << >>
    ELSE IssueIf("node" \notin inp.tools, "Node.js missing")
         \o IssueIf("npm" \notin inp.tools, "npm missing")
         \o IssueIf("node_modules" \notin inp.paths, "Frontend dependencies not installed")
         \o IssueIf("package.json" \notin inp.paths, "package.json missing")

\* the backend block
BackendIssues(inp) ==
    IF ~inp.has_backend THEN << >>
    ELSE IssueIf("python3" \notin inp.tools, "Python 3 missing")
         \o IssueIf("uv" \notin inp.tools, "uv missing")
         \o IssueIf(".venv" \notin inp.paths, "Backend virtual environment not created")
         \o IssueIf("pyproject.toml" \notin inp.paths, "pyproject.toml missing")

\* the database block: the client is created and tested inside a try block,
\* whose except clause records an issue
DatabaseIssues(inp) ==
    IF ~Truthy(inp.url) THEN <<"Database not configured">>
    ELSE IF ~Truthy(inp.service_role_key) THEN <<"Database credentials incomplete">>
    ELSE LET db_client == DatabaseClientInit(TokensOf(inp.url), None, None)
         IN  IF ~(db_client.built /\ inp.created)
             THEN <<"Database connection error">>
             ELSE IssueIf(~test_connection(inp.listing).ret, "Cannot connect to database")

ValResult(inp, issues, status, exit) ==
    [name |-> "validate", inp |-> inp, issues |-> issues, status |-> status,
     exit |-> exit]
NoVal ==
    [name |-> "none",
     inp |-> [has_frontend |-> FALSE, has_backend |-> FALSE, tools |-> {},
              paths |-> {}, url |-> None, service_role_key |-> None,
              created |-> FALSE, listing |-> "ok"],
     issues |-> << >>, status |-> "none", exit |-> 0]

\* a validate that exits with status 1 only for a database issue
validate_LenientExit(inp) ==
    LET issues == FrontendIssues(inp) \o BackendIssues(inp) \o DatabaseIssues(inp)
    IN  IF DatabaseIssues(inp) # << >>
        THEN ValResult(inp, issues, "exit", 1)
        ELSE ValResult(inp, issues, "returned", 0)

\* validate(): every block appends its issues; typer.Exit(1) when there is one
validate(inp) ==
    LET issues == FrontendIssues(inp) \o BackendIssues(inp) \o DatabaseIssues(inp)
    IN  IF issues # << >>
        THEN ValResult(inp, issues, "exit", 1)
        ELSE ValResult(inp, issues, "returned", 0)

\* dh validate is run, once in a process
Validate ==
    /\ val.name = "none"
    /\ \E inp \in ValInputs : val' = validate(inp)
    /\ UNCHANGED <<mig, committed, sync, backend, probe, prev>>
    /\ UNCHANGED dbVars
    /\ UNCHANGED configVars

\* ------------------------------------------------------------------------
\* Idle values of the runs
\* ------------------------------------------------------------------------
IdleRun ==
    /\ mig = NoMig
    /\ committed = {}
    /\ sync = NoSync
    /\ backend = Backend({}, {}, {})
    /\ probe = NoProbe
    /\ val = NoVal
    /\ prev = NoSync

\* ------------------------------------------------------------------------
\* Specifications
\* ------------------------------------------------------------------------
\* the configuration store, on any two files
Init ==
    /\ dhFile \in InitFiles
    /\ localFile \in InitFiles
    /\ gitignore = NoGitignore
    /\ op = Op("none", DefaultConfig, NoResult, 0)
    /\ pc = "idle"
    /\ ctx = NoCtx
    /\ cmds = << >>
    /\ IdleDb
    /\ IdleRun
Next ==
    \/ Load
    \/ SaveLocal
    \/ SaveProject
Spec == Init /\ [][Next]_vars

\* the configuration store and the setup command, from a dh.toml that has no
\* db section
InitSetup ==
    /\ dhFile \in {f \in InitFiles : "db" \notin DOMAIN f.data}
    /\ localFile \in {AbsentFile, TableFile(TableOf({<<"db", "url">>}, [k \in {<<"db", "url">>} |-> 1]))}
    /\ gitignore \in InitGitignores
    /\ op = Op("none", DefaultConfig, NoResult, 0)
    /\ pc = "idle"
    /\ ctx = NoCtx
    /\ cmds = << >>
    /\ IdleDb
    /\ IdleRun
NextSetup ==
    \/ Load
    \/ SaveLocal
    \/ SaveProject
    \/ SetupStart
    \/ SetupDb
    \/ SetupInstall
    \/ SetupGitignore
    \/ SetupSaveProject
SpecSetup == InitSetup /\ [][NextSetup]_vars

\* the setup and install commands, run any number of times from any
\* .gitignore
InitCommands ==
    /\ dhFile = AbsentFile
    /\ localFile = AbsentFile
    /\ gitignore \in InitGitignores
    /\ op = Op("none", DefaultConfig, NoResult, 0)
    /\ pc = "idle"
    /\ ctx = NoCtx
    /\ cmds = << >>
    /\ IdleDb
    /\ IdleRun
NextCommands ==
    \/ SetupStart
    \/ SetupDb
    \/ SetupInstall
    \/ SetupGitignore
    \/ SetupSaveProject
    \/ Install
SpecCommands == InitCommands /\ [][NextCommands]_vars

\* the project-ref pattern on every URL of at most MaxUrlLen tokens
InitRef ==
    /\ IdleConfig
    /\ urlIn \in UrlsUpTo(MaxUrlLen)
    /\ derived = "unset"
    /\ args = NoArgs
    /\ build = "none"
    /\ client = NoClient
    /\ hostRes = NoHost
    /\ openConns = 0
    /\ call = NoCall
    /\ IdleRun
NextRef == DeriveRef
SpecRef == InitRef /\ [][NextRef]_vars

\* the database client
InitDb == IdleConfig /\ IdleDb /\ IdleRun
NextDb ==
    \/ BuildClient
    \/ ResolveHost
    \/ ApplyOne
SpecDb == InitDb /\ [][NextDb]_vars

\* the clients that run_migrations and sync_allowed_users are called on
BuiltClients ==
    {DatabaseClientInit(url, db_password, project_ref) :
        url \in StrToks, db_password \in Passwords, project_ref \in ExplicitRefs}

\* run_migrations, on any client
InitMig ==
    /\ IdleConfig
    /\ urlIn = << >>
    /\ derived = "unset"
    /\ args = NoArgs
    /\ build = "built"
    /\ client \in BuiltClients
    /\ hostRes = NoHost
    /\ openConns = 0
    /\ call = NoCall
    /\ IdleRun
NextMig ==
    \/ MigStart
    \/ MigStep
SpecMig == InitMig /\ [][NextMig]_vars

\* the calls of the client that go to the backend API, on any backend
InitSync ==
    /\ IdleConfig
    /\ urlIn = << >>
    /\ derived = "unset"
    /\ args = NoArgs
    /\ build = "built"
    /\ client = DatabaseClientInit(<<"https://", "abc", ".", "supabase", ".", "co">>, None, None)
    /\ hostRes = NoHost
    /\ openConns = 0
    /\ call = NoCall
    /\ mig = NoMig
    /\ committed = {}
    /\ sync = NoSync
    /\ backend \in Backends
    /\ probe = NoProbe
    /\ val = NoVal
    /\ prev = NoSync
NextSync ==
    \/ TestConnection
    \/ GrantAccess
    \/ SyncStart
    \/ SyncLine
    \/ SyncReturn
SpecSync == InitSync /\ [][NextSync]_vars

\* sync_allowed_users, run once on any backend and then a second time with
\* the same list
NextResync ==
    \/ SyncStart
    \/ SyncLine
    \/ SyncReturn
    \/ SyncAgain
    \/ SyncAgainLine
    \/ SyncAgainReturn
SpecResync == InitSync /\ [][NextResync]_vars

\* the commands of one client that has a password and a project ref:
\* migrations, and the calls that go to the backend API
InitRuns ==
    /\ IdleConfig
    /\ urlIn = << >>
    /\ derived = "unset"
    /\ args = NoArgs
    /\ build = "built"
    /\ client = DatabaseClientInit(<<"https://", "abc", ".", "supabase", ".", "co">>, "pw", None)
    /\ hostRes = NoHost
    /\ openConns = 0
    /\ call = NoCall
    /\ mig = NoMig
    /\ committed = {}
    /\ sync = NoSync
    /\ backend = Backend(Users, {"u1"}, {"u2"})
    /\ probe = NoProbe
    /\ val = NoVal
    /\ prev = NoSync
NextRuns ==
    \/ MigStart
    \/ MigStep
    \/ TestConnection
    \/ GrantAccess
    \/ SyncStart
    \/ SyncLine
    \/ SyncReturn
SpecRuns == InitRuns /\ [][NextRuns]_vars

\* the validate command
InitValidate == IdleConfig /\ IdleDb /\ IdleRun
NextValidate == Validate
SpecValidate == InitValidate /\ [][NextValidate]_vars

\* ------------------------------------------------------------------------
\* Properties of the configuration store
\* ------------------------------------------------------------------------
\* file holds key f in section s
Has(file, s, f) ==
    /\ file.kind = "table"
    /\ s \in DOMAIN file.data
    /\ f \in DOMAIN file.data[s]

\* the value of s.f by the precedence rule: the local-secret file, then the
\* version-controlled file, then the default
Precedence(s, f) ==
    IF Has(localFile, s, f) THEN localFile.data[s][f]
    ELSE IF Has(dhFile, s, f) THEN dhFile.data[s][f]
    ELSE DefaultConfig[s][f]

\* C1: from a dh.toml without a db section, whatever load_config,
\* save_local_config, save_project_config and setup runs happen, dh.toml
\* holds no section but project and preferences and no db field anywhere.
C1_NoSecretsInDhToml ==
    dhFile.kind = "table" =>
        /\ DOMAIN dhFile.data \subseteq {"project", "preferences"}
        /\ \A s \in DOMAIN dhFile.data : DOMAIN dhFile.data[s] \subseteq FieldsOf(s)

\* a setup that stored secrets has finished and written dh.toml
C1_Witness ==
    /\ op.name = "setup"
    /\ pc = "idle"
    /\ op.exit = 0
    /\ op.cfg.db["password"] # None
    /\ Has(localFile, "db", "password")
    /\ dhFile.kind = "table"

\* C2: load_config gives the shallow merge of the two files, a missing file
\* counting as an empty table and raising nothing: every field has the
\* local-secret file's value when that file holds the key, else the
\* version-controlled file's value when that one holds it, else the default.
C2_LoadIsShallowMerge ==
    (op.name = "load_config" /\ dhFile.kind # "malformed" /\ localFile.kind # "malformed")
        => /\ op.res.status = "ok"
           /\ \A s \in Sections : \A f \in FieldsOf(s) :
                 op.res.config[s][f] = Precedence(s, f)

\* both files hold the same project key with different values, and were loaded
C2_Witness ==
    /\ op.name = "load_config"
    /\ op.res.status = "ok"
    /\ \E f \in ProjectFields :
          /\ Has(dhFile, "project", f)
          /\ Has(localFile, "project", f)
          /\ dhFile.data["project"][f] # localFile.data["project"][f]

\* C3: a load_config that follows save_local_config(c) and returns a Config
\* returns every db field that is not None in c with c's value, whatever the
\* two files held before.
C3_SecretsRoundTrip ==
    (op.name = "load_config" /\ op.after = "save_local_config" /\ op.res.status = "ok")
        => \A f \in DbFields :
              op.cfg.db[f] # None => op.res.config.db[f] = op.cfg.db[f]

\* the round trip of a db field that dh.toml holds with another value
C3_Witness ==
    /\ op.name = "load_config"
    /\ op.after = "save_local_config"
    /\ op.res.status = "ok"
    /\ \E f \in DbFields :
          /\ op.cfg.db[f] # None
          /\ Has(dhFile, "db", f)
          /\ dhFile.data["db"][f] # op.cfg.db[f]

\* C4 as claimed: a load_config that follows save_project_config(c) returns
\* c's project and preferences fields, whatever the local-secret file holds.
C4_AsClaimed ==
    (op.name = "load_config" /\ op.after = "save_project_config" /\ op.res.status = "ok")
        => /\ \A f \in ProjectFields : op.res.config.project[f] = op.cfg.project[f]
           /\ \A f \in PrefFields : op.res.config.preferences[f] = op.cfg.preferences[f]

\* C4 as amended: a load_config that follows save_project_config(c) returns a
\* Config unless the local-secret file is malformed, and in it every project
\* and preferences field that the local-secret file does not hold has c's
\* value (one that it holds has the local-secret file's value).
C4_ProjectRoundTrip ==
    (op.name = "load_config" /\ op.after = "save_project_config")
        => /\ localFile.kind # "malformed" => op.res.status = "ok"
           /\ op.res.status = "ok" =>
                 \A s \in {"project", "preferences"} : \A f \in FieldsOf(s) :
                     op.res.config[s][f] =
                         IF Has(localFile, s, f) THEN localFile.data[s][f]
                         ELSE op.cfg[s][f]

\* the round trip of a project path and of a preference that is not the default
C4_Witness ==
    /\ op.name = "load_config"
    /\ op.after = "save_project_config"
    /\ op.res.status = "ok"
    /\ localFile.kind = "table"
    /\ \/ op.cfg.project["frontend_path"] # None
       \/ op.cfg.preferences # DefaultPreferences
    /\ op.res.config.project = op.cfg.project
    /\ op.res.config.preferences = op.cfg.preferences

\* C5: save_local_config(c) leaves dh.toml as it was and makes .dh.local.toml
\* a table of the db section alone, with exactly the db fields that are not
\* None in c, at c's values.
C5_SaveLocalOverwrites ==
    [][op'.name = "save_local_config" =>
          /\ dhFile' = dhFile
          /\ localFile'.kind = "table"
          /\ DOMAIN localFile'.data = {"db"}
          /\ DOMAIN localFile'.data["db"] = {f \in DbFields : op'.cfg.db[f] # None}
          /\ \A f \in DOMAIN localFile'.data["db"] :
                localFile'.data["db"][f] = op'.cfg.db[f]]_vars

\* a save_local_config of a Config with a project path and without a db.url
\* has run next to a dh.toml that is a table
C5_Witness ==
    /\ op.name = "save_local_config"
    /\ op.cfg.db["url"] = None
    /\ op.cfg.project["frontend_path"] # None
    /\ dhFile.kind = "table"
    /\ ~Has(localFile, "db", "url")

\* C6 as claimed: with a malformed file load_config raises an error that
\* names that file.
C6_AsClaimed ==
    (op.name = "load_config" /\ (dhFile.kind = "malformed" \/ localFile.kind = "malformed"))
        => /\ op.res.status = "raised"
           /\ op.res.exc.file =
                 IF dhFile.kind = "malformed" THEN "dh.toml" ELSE ".dh.local.toml"

\* C6 as amended: with a malformed file load_config raises the parser's
\* TOMLDecodeError as it is, which names no file, and returns no Config.
C6_MalformedRaises ==
    (op.name = "load_config" /\ (dhFile.kind = "malformed" \/ localFile.kind = "malformed"))
        => /\ op.res.status = "raised"
           /\ op.res.exc.type = "TOMLDecodeError"
           /\ op.res.exc.file = NoFile
           /\ op.res.config = DefaultConfig

\* a load_config of a fine dh.toml and a malformed .dh.local.toml
C6_Witness ==
    /\ op.name = "load_config"
    /\ dhFile.kind = "table"
    /\ localFile.kind = "malformed"
    /\ op.res.status = "raised"

\* ------------------------------------------------------------------------
\* Properties of the project ref and of the database client
\* ------------------------------------------------------------------------
\* url is https://{ref}.supabase.co and nothing else, ref a run of tokens
\* without a dot
OfForm(url) ==
    /\ Len(url) >= 6
    /\ url[1] = "https://"
    /\ \A k \in 2..(Len(url) - 4) : url[k] # "."
    /\ SubSeq(url, Len(url) - 3, Len(url)) = <<".", "supabase", ".", "co">>

\* the places where https://{ref}.supabase.co occurs inside url: i is the
\* position of "https://", j the last position of ref
Occurrences(url) ==
    {p \in (1..Len(url)) \X (1..Len(url)) :
        /\ p[1] < p[2]
        /\ p[2] + 4 <= Len(url)
        /\ url[p[1]] = "https://"
        /\ \A k \in (p[1] + 1)..p[2] : url[k] # "."
        /\ SubSeq(url, p[2] + 1, p[2] + 4) = <<".", "supabase", ".", "co">>}

\* C7 as claimed: the pattern gives ref for a URL that is
\* https://{ref}.supabase.co and None for every other URL.
C7_AsClaimed ==
    derived # "unset" =>
        IF OfForm(urlIn) THEN derived = Join(SubSeq(urlIn, 2, Len(urlIn) - 4))
        ELSE derived = None

\* C7 as amended: the pattern is searched for anywhere in the URL.  The result
\* is the ref of the leftmost place where https://{ref}.supabase.co occurs
\* inside the URL, and None exactly when it occurs nowhere; for a URL that is
\* https://{ref}.supabase.co it is ref.
C7_RefOfLeftmostOccurrence ==
    derived # "unset" =>
        /\ IF Occurrences(urlIn) = {} THEN derived = None
           ELSE \E p \in Occurrences(urlIn) :
                   /\ \A q \in Occurrences(urlIn) : p[1] <= q[1]
                   /\ derived = Join(SubSeq(urlIn, p[1] + 1, p[2]))
        /\ OfForm(urlIn) => derived = Join(SubSeq(urlIn, 2, Len(urlIn) - 4))
        /\ urlIn = <<"https://", "abc", ".", "supabase", ".", "co">> => derived = "abc"
        /\ urlIn = <<"https://", "abc", ".", "co">> => derived = None

\* a ref was found in a URL that is more than https://{ref}.supabase.co
C7_Witness ==
    /\ derived \notin {"unset", None}
    /\ ~OfForm(urlIn)
    /\ urlIn[1] # "https://"

\* C8: a DatabaseClient is built whenever create_client returns, also when no
\* project ref is given and none is found in the URL; its project ref is the
\* one given when one is given, else the one of the URL; db_host is
\* db.{ref}.supabase.co when there is a ref and raises exactly when there is
\* none.
C8_RefFailureDeferred ==
    /\ build # "__init__ raised"
    /\ args.created => build = "built"
    /\ build = "built" =>
          client.project_ref =
              IF args.project_ref = "ref1" THEN "ref1"
              ELSE IF args.url = <<"https://", "abc", ".", "supabase", ".", "co">>
                   THEN "abc" ELSE None
    /\ hostRes.status # "none" =>
          IF client.project_ref = None
          THEN hostRes.status = "raised" /\ hostRes.exc = "ValueError: Project ref not available"
          ELSE hostRes.status = "ok"
               /\ hostRes.value = "db." \o client.project_ref \o ".supabase.co"

\* a client built without any project ref, whose db_host was then read
C8_Witness ==
    /\ build = "built"
    /\ ~Truthy(args.project_ref)
    /\ client.project_ref = None
    /\ hostRes.status = "raised"

C10_AsClaimed ==
    call.name = "run_migration_file" => (call.left_open = 0 /\ openConns = 0)


\* ------------------------------------------------------------------------
\* Properties of run_migrations
\* ------------------------------------------------------------------------
\* the files of the run are the .sql entries of the directory, in increasing
\* order of their names
SortedListing ==
    /\ {mig.sql_files[k] : k \in 1..Len(mig.sql_files)} = GlobSql(mig.dir)
    /\ \A j, k \in 1..Len(mig.sql_files) :
          j < k => NameLess(mig.sql_files[j], mig.sql_files[k])

\* run_migration_file was called on the first files of the listing, in order,
\* once each, and every call but the last returned True
CallsArePrefix ==
    /\ Len(mig.calls) <= Len(mig.sql_files)
    /\ \A k \in 1..Len(mig.calls) : mig.calls[k].file = mig.sql_files[k]
    /\ \A k \in 1..(Len(mig.calls) - 1) :
          mig.calls[k].status = "returned" /\ mig.calls[k].ret

\* the last call of the run failed: it returned False or raised
LastCallFailed ==
    /\ mig.calls # << >>
    /\ ~(mig.calls[Len(mig.calls)].status = "returned" /\ mig.calls[Len(mig.calls)].ret)

\* C11 as claimed: run_migrations calls run_migration_file on the .sql files
\* in increasing order of their names up to and including the first one that
\* fails and on none after it, and it returns False if and only if some file
\* failed (True otherwise).
C11_AsClaimed ==
    (mig.pc = "done" /\ mig.dir.exists) =>
        /\ SortedListing
        /\ CallsArePrefix
        /\ mig.status = "returned"
        /\ mig.ret = FALSE <=> LastCallFailed
        /\ mig.ret = TRUE <=> (~LastCallFailed /\ Len(mig.calls) = Len(mig.sql_files))

\* C11: run_migrations calls run_migration_file on the .sql files in
\* increasing order of their names up to and including the first one that
\* fails and on none after it.  It returns True if and only if no file failed,
\* it returns False if and only if the failing call returned False, and when
\* the failing call raised (the file could not be read) run_migrations ends in
\* that exception.
C11_StopsAtFirstFailure ==
    /\ mig.pc \in {"loop", "done"} /\ mig.dir.exists =>
          SortedListing /\ CallsArePrefix
    /\ mig.pc = "loop" => ~LastCallFailed /\ Len(mig.calls) = mig.i - 1
    /\ (mig.pc = "done" /\ mig.dir.exists) =>
          /\ (mig.status = "returned" /\ mig.ret)
                <=> (~LastCallFailed /\ Len(mig.calls) = Len(mig.sql_files))
          /\ (mig.status = "returned" /\ ~mig.ret)
                <=> (LastCallFailed /\ mig.calls[Len(mig.calls)].status = "returned")
          /\ mig.status = "raised"
                <=> (LastCallFailed /\ mig.calls[Len(mig.calls)].status = "raised")

\* a run over three .sql files stopped at the second, whose SQL failed
C11_Witness ==
    /\ mig.pc = "done"
    /\ mig.status = "returned" /\ ~mig.ret
    /\ Len(mig.sql_files) = 3
    /\ Len(mig.calls) = 2
    /\ mig.calls[1].ret
    /\ HasEvent(mig.calls[2], "execute")
    /\ ~HasEvent(mig.calls[2], "commit")


\* the run made no call of run_migration_file and touched no connection
NothingExecuted ==
    /\ mig.calls = << >>
    /\ call = NoCall
    /\ openConns = 0
    /\ committed = {}

\* C12: run_migrations on a directory that exists and holds no .sql file
\* returns True without calling run_migration_file or opening a connection;
\* on a directory that does not exist it returns False ("Migrations directory
\* not found"), again with nothing executed.
C12_EmptyAndMissingDirectory ==
    /\ (mig.pc # "idle" /\ mig.dir.exists /\ GlobSql(mig.dir) = {}) =>
          /\ mig.pc = "done"
          /\ mig.status = "returned" /\ mig.ret = TRUE
          /\ mig.msg = "No migration files found"
          /\ NothingExecuted
    /\ (mig.pc # "idle" /\ ~mig.dir.exists) =>
          /\ mig.pc = "done"
          /\ mig.status = "returned" /\ mig.ret = FALSE
          /\ mig.msg = "Migrations directory not found"
          /\ NothingExecuted

\* run_migrations returned True on a directory whose one entry is not a .sql
\* file
C12_Witness ==
    /\ mig.pc = "done"
    /\ mig.dir.exists
    /\ mig.dir.entries = {<<"1", ".", "t", "x", "t">>}
    /\ mig.ret = TRUE
    /\ NothingExecuted


\* the call r went through connect, execute, commit and close
FullyApplied(r) ==
    /\ r.status = "returned" /\ r.ret
    /\ Len(r.events) = 4
    /\ r.events[1].ev = "connect"
    /\ r.events[2] = Event("execute", r.file)
    /\ r.events[3] = Event("commit", r.file)
    /\ r.events[4].ev = "close"

\* C13 as claimed: when run_migrations has failed at a file, every file
\* before it was executed and committed and is committed still, and no commit
\* was issued for the failing file.
C13_AsClaimed ==
    (mig.pc = "done" /\ LastCallFailed) =>
        /\ \A k \in 1..(Len(mig.calls) - 1) :
              FullyApplied(mig.calls[k]) /\ mig.sql_files[k] \in committed
        /\ ~HasEvent(mig.calls[Len(mig.calls)], "commit")

\* C13: in every state of a run, each file run_migration_file returned True
\* for was executed and committed on a connection of its own and is committed
\* (a later failure takes nothing back).  For the failing file a commit is
\* issued only when connect and execute worked and it is conn.commit() that
\* raised; only then can the failing file be committed.
C13_NoCrossFileRollback ==
    /\ \A k \in 1..Len(mig.calls) :
          (mig.calls[k].status = "returned" /\ mig.calls[k].ret) =>
              FullyApplied(mig.calls[k]) /\ mig.sql_files[k] \in committed
    /\ (mig.pc = "done" /\ LastCallFailed) =>
          LET last == mig.calls[Len(mig.calls)]
          IN  /\ HasEvent(last, "commit") <=> last.msg = "Migration failed: commit"
              /\ HasEvent(last, "commit") =>
                    /\ HasEvent(last, "execute")
                    /\ ~HasEvent(last, "close")
              /\ last.file \in committed => HasEvent(last, "commit")
    /\ committed \subseteq {mig.calls[k].file : k \in 1..Len(mig.calls)}

\* a run failed at its second file, in conn.commit(); the first file is
\* committed
C13_Witness ==
    /\ mig.pc = "done"
    /\ Len(mig.calls) = 2
    /\ LastCallFailed
    /\ HasEvent(mig.calls[2], "commit")
    /\ mig.sql_files[1] \in committed
    /\ mig.sql_files[2] \notin committed


\* ------------------------------------------------------------------------
\* Properties of the calls to the backend API
\* ------------------------------------------------------------------------
\* C14 as claimed: insert_allowed_user never raises; it returns True when the
\* insert worked and when it raised a violation of the key (the user id is in
\* the table already), and False for every other error of the insert.
C14_AsClaimed ==
    probe.name = "insert_allowed_user" =>
        /\ probe.status = "returned"
        /\ probe.resp.ok => probe.ret
        /\ (~probe.resp.ok /\ probe.resp.kind = "unique_violation") => probe.ret
        /\ (~probe.resp.ok /\ probe.resp.kind # "unique_violation") => ~probe.ret

\* C14: insert_allowed_user never raises; it returns True when the insert
\* worked, True when the user id is in the table already (the insert raises
\* "duplicate key value violates unique constraint"), and for an error of the
\* insert it returns True exactly when the text of the error holds, in any
\* letter case, "duplicate key" or "already exists", whatever the error is.
\* An insert that raised leaves the table as it was.
C14_GrantIsIdempotent ==
    probe.name = "insert_allowed_user" =>
        /\ probe.status = "returned"
        /\ Len(probe.calls) = 1
        /\ probe.resp.ok => probe.ret
        /\ (probe.present /\ probe.resp.kind = "unique_violation") =>
              (probe.ret /\ probe.arg \in backend.allow)
        /\ ~probe.resp.ok =>
              (probe.ret <=> probe.resp.text \in
                                {UniqueViolation.text, <<"Resource", "Already", "Exists">>})
        /\ (~probe.resp.ok /\ ~probe.present) => probe.arg \notin backend.allow

\* a user id that was in the table already was inserted again: True
C14_Witness ==
    /\ probe.name = "insert_allowed_user"
    /\ probe.present
    /\ probe.resp = UniqueViolation
    /\ probe.ret


\* the positions of the eligible lines handed to the loop so far
EligibleAt == {k \in 1..Len(sync.lines) : Eligible(sync.lines[k])}
\* the positions of the log that hold a call of that name
CallsAt(name) == {k \in 1..Len(sync.log) : sync.log[k].call = name}

\* C15: lines that are blank after strip() or begin with # after strip()
\* count nowhere; every other line adds one to exactly one of not_found (no
\* user found), added (insert_allowed_user True) and skipped
\* (insert_allowed_user False), so that added + skipped + not_found is the
\* number of eligible lines, in every state of the loop and at the return.
C15_EveryEligibleLineCountedOnce ==
    sync.pc \in {"loop", "done"} =>
        /\ sync.stats.added + sync.stats.skipped + sync.stats.not_found
              = Cardinality(EligibleAt)
        /\ sync.stats.added + sync.stats.skipped = Cardinality(CallsAt("insert"))
        /\ sync.stats.not_found
              = Cardinality(EligibleAt) - Cardinality(CallsAt("insert"))
        /\ sync.stats.added
              >= Cardinality({k \in CallsAt("insert") : sync.log[k].ok})
        /\ sync.status # "raised"

\* the list a@x.com, a comment, b@x.com was processed: one user added, one not
\* found, the comment counted nowhere
C15_Witness ==
    /\ sync.pc = "done"
    /\ sync.lines = <<<<"a@x.com">>, <<Blank, "#", "a@x.com">>, <<"b@x.com">>>>
    /\ sync.stats = Stats(1, 0, 1)


\* the e-mails looked up so far, in the order of the calls
LookedUp ==
    LET lookups == SelectSeq(sync.log, LAMBDA e : e.call = "list_users")
    IN  [k \in 1..Len(lookups) |-> lookups[k].arg]
\* the eligible lines handed to the loop so far, stripped, in input order
EligibleEmails ==
    LET lines == SelectSeq(sync.lines, Eligible)
    IN  [k \in 1..Len(lines) |-> Strip(lines[k])]

\* C16: sync_allowed_users never raises; a lookup whose list_users() raised is
\* not followed by an insert and counts as not found, an insert_allowed_user
\* that fails counts as skipped, and whatever failed before, every eligible
\* line handed to the loop is looked up, in input order.
C16_ContinueOnError ==
    sync.pc \in {"loop", "done"} =>
        /\ sync.status # "raised"
        /\ sync.pc = "done" => sync.status = "returned"
        /\ LookedUp = EligibleEmails
        /\ \A k \in CallsAt("list_users") :
              ~sync.log[k].ok => (k = Len(sync.log) \/ sync.log[k + 1].call = "list_users")
        /\ sync.stats.not_found
              >= Cardinality({k \in CallsAt("list_users") : ~sync.log[k].ok})
        /\ sync.stats.skipped = Cardinality(CallsAt("insert")) - sync.stats.added
        /\ sync.stats.skipped
              <= Cardinality({k \in CallsAt("insert") : ~sync.log[k].ok})

\* the first lookup of a run raised, a later insert failed, and the third line
\* was looked up all the same
C16_Witness ==
    /\ sync.pc = "done"
    /\ Len(sync.lines) = 3
    /\ sync.log # << >> /\ ~sync.log[1].ok
    /\ sync.stats.skipped = 1
    /\ sync.stats.not_found >= 1
    /\ Cardinality(CallsAt("list_users")) = 3


\* the orders the lines of the finished run can be put in
Orders(n) == {f \in [1..n -> 1..n] : \A j, k \in 1..n : f[j] = f[k] => j = k}

\* C17: when sync_allowed_users has returned from a run in which every remote
\* call did what the backend does by itself, the counters are those of a run
\* on the lines in any other order from the same users and the same
\* allowed_users table.
C17_StatsOrderIndependent ==
    (sync.pc = "done" /\ sync.clean) =>
        \A f \in Orders(Len(sync.lines)) :
            RunLines(NoSync, [backend EXCEPT !.allow = sync.allow0],
                     [k \in 1..Len(sync.lines) |-> sync.lines[f[k]]]).stats
                = sync.stats

\* a run over three lines added a user and skipped another
C17_Witness ==
    /\ sync.pc = "done"
    /\ sync.clean
    /\ Len(sync.lines) = 3
    /\ sync.lines[1] # sync.lines[2]
    /\ sync.stats.added >= 1
    /\ sync.stats.skipped >= 1


\* C18: test_connection makes one list_users() call, returns True if and only
\* if that call returned, and never raises.
C18_ProbeNeverRaises ==
    probe.name = "test_connection" =>
        /\ probe.status = "returned"
        /\ Len(probe.calls) = 1
        /\ probe.calls[1].call = "list_users"
        /\ probe.ret <=> probe.calls[1].ok

\* a test_connection whose list_users() call raised returned False
C18_Witness ==
    /\ probe.name = "test_connection"
    /\ probe.status = "returned"
    /\ ~probe.calls[1].ok
    /\ ~probe.ret


\* ------------------------------------------------------------------------
\* Properties of all remote calls
\* ------------------------------------------------------------------------
\* the number of steps ev in the events of the call r
CountEvents(r, ev) == Cardinality({k \in 1..Len(r.events) : r.events[k].ev = ev})

\* C19: nothing is tried twice.  run_migrations hands each file to
\* run_migration_file at most once, a call connects at most once and executes
\* its file at most once, and a call that failed is the last one of the run.
\* sync_allowed_users makes one list_users() call for each eligible line and
\* at most one insert for it, the insert coming right after a lookup that
\* returned; a call that failed is followed by the lookup of the next line or
\* by nothing.  test_connection and insert_allowed_user make one call.
C19_NothingRetried ==
    /\ \A j, k \in 1..Len(mig.calls) :
          mig.calls[j].file = mig.calls[k].file => j = k
    /\ \A k \in 1..Len(mig.calls) :
          /\ CountEvents(mig.calls[k], "connect") <= 1
          /\ CountEvents(mig.calls[k], "execute") <= 1
          /\ CountEvents(mig.calls[k], "commit") <= 1
          /\ ~(mig.calls[k].status = "returned" /\ mig.calls[k].ret) => k = Len(mig.calls)
    /\ Len(mig.calls) <= Len(mig.sql_files)
    /\ CountEvents(call, "connect") <= 1
    /\ Cardinality(CallsAt("list_users")) = Cardinality(EligibleAt)
    /\ Cardinality(CallsAt("insert")) <= Cardinality(EligibleAt)
    /\ \A k \in CallsAt("insert") :
          /\ k > 1
          /\ sync.log[k - 1].call = "list_users"
          /\ sync.log[k - 1].ok
    /\ \A k \in 1..Len(sync.log) :
          ~sync.log[k].ok => (k = Len(sync.log) \/ sync.log[k + 1].call = "list_users")
    /\ Len(probe.calls) <= 1

\* a run of sync_allowed_users in which the insert for the first line failed
\* went on to the next line, with one lookup for each of its three lines
C19_Witness ==
    /\ sync.pc = "done"
    /\ Len(sync.lines) = 3
    /\ Len(sync.log) >= 4
    /\ sync.log[2].call = "insert" /\ ~sync.log[2].ok
    /\ sync.log[3].call = "list_users"
    /\ Cardinality(CallsAt("list_users")) = 3


\* ------------------------------------------------------------------------
\* Properties of the validate command
\* ------------------------------------------------------------------------
\* the issues validate has to record for what it read
ExpectedIssues(inp) ==
    {t \in {"Node.js missing", "npm missing", "Frontend dependencies not installed",
            "package.json missing", "Python 3 missing", "uv missing",
            "Backend virtual environment not created", "pyproject.toml missing",
            "Database not configured", "Database credentials incomplete",
            "Database connection error", "Cannot connect to database"} :
        CASE t = "Node.js missing" -> inp.has_frontend /\ "node" \notin inp.tools
          [] t = "npm missing" -> inp.has_frontend /\ "npm" \notin inp.tools
          [] t = "Frontend dependencies not installed" ->
                inp.has_frontend /\ "node_modules" \notin inp.paths
          [] t = "package.json missing" ->
                inp.has_frontend /\ "package.json" \notin inp.paths
          [] t = "Python 3 missing" -> inp.has_backend /\ "python3" \notin inp.tools
          [] t = "uv missing" -> inp.has_backend /\ "uv" \notin inp.tools
          [] t = "Backend virtual environment not created" ->
                inp.has_backend /\ ".venv" \notin inp.paths
          [] t = "pyproject.toml missing" ->
                inp.has_backend /\ "pyproject.toml" \notin inp.paths
          [] t = "Database not configured" -> inp.url \in {None, ""}
          [] t = "Database credentials incomplete" ->
                inp.url \notin {None, ""} /\ inp.service_role_key \in {None, ""}
          [] t = "Database connection error" ->
                /\ inp.url \notin {None, ""}
                /\ inp.service_role_key \notin {None, ""}
                /\ ~inp.created
          [] t = "Cannot connect to database" ->
                /\ inp.url \notin {None, ""}
                /\ inp.service_role_key \notin {None, ""}
                /\ inp.created
                /\ inp.listing = "raises"}

\* C20: validate runs every check, whatever the checks before it found, and
\* records one issue for each that fails: a missing node, npm, python3 or uv,
\* a missing node_modules or .venv (and a missing package.json or
\* pyproject.toml), no database URL, no secret key, a failed connection test,
\* an exception while the database client is created.  No exception of the
\* database client leaves validate.  It exits with status 1 if and only if it
\* recorded at least one issue, and returns normally otherwise.
C20_ExitStatusConvention ==
    val.name = "validate" =>
        /\ {val.issues[k] : k \in 1..Len(val.issues)} = ExpectedIssues(val.inp)
        /\ Len(val.issues) = Cardinality(ExpectedIssues(val.inp))
        /\ val.status \in {"exit", "returned"}
        /\ val.exit = 1 <=> val.issues # << >>
        /\ val.status = "exit" <=> val.exit = 1
        /\ val.status = "returned" <=> val.exit = 0

\* validate found node missing and nothing else, and exited with status 1
C20_Witness ==
    /\ val.name = "validate"
    /\ val.inp.has_frontend
    /\ val.issues = <<"Node.js missing">>
    /\ val.status = "exit"
    /\ val.exit = 1

\* ------------------------------------------------------------------------
\* C21 as the claim states it: an install that found neither a frontend nor
\* a backend has exit status 1 and has run no command.
C21_AsClaimed ==
    (op.name = "install" /\ ~op.seen.has_frontend /\ ~op.seen.has_backend)
        => (op.exit = 1 /\ cmds = << >>)

\* ------------------------------------------------------------------------
\* the setup that began saw no project, or saw a project one of whose tools
\* is missing
PreconditionsFail(seen) ==
    \/ ~seen.has_frontend /\ ~seen.has_backend
    \/ seen.has_frontend /\ ("node" \notin seen.installed \/ "npm" \notin seen.installed)
    \/ seen.has_backend /\ "uv" \notin seen.installed

\* C22: a setup that detects neither a frontend nor a backend, or misses
\* node or npm for a detected frontend or uv for a detected backend, ends at
\* once with exit status 1; .dh.local.toml, dh.toml and .gitignore are what
\* they were before the run and no install command has been run.
C22_SetupAbortsBeforeAnyWrite ==
    [][(pc = "idle" /\ op'.name = "setup" /\ PreconditionsFail(op'.seen))
          => /\ op'.exit = 1
             /\ pc' = "idle"
             /\ localFile' = localFile
             /\ dhFile' = dhFile
             /\ gitignore' = gitignore
             /\ cmds' = << >>]_vars

\* a setup has failed for a missing npm, after an earlier setup had written
\* the three files and run the installs
C22_Witness ==
    /\ op.name = "setup"
    /\ pc = "idle"
    /\ op.exit = 1
    /\ op.seen.has_frontend
    /\ "npm" \notin op.seen.installed
    /\ localFile.kind = "table"
    /\ dhFile.kind = "table"
    /\ gitignore.exists
    /\ cmds = << >>

\* ------------------------------------------------------------------------
\* the second call with the same list has returned
Resynced == sync.pc = "done" /\ prev.pc = "done"

FoundAt(inAllow) ==
    {k \in 1..Len(sync.lines) :
        /\ Eligible(sync.lines[k])
        /\ LET user == get_user_by_email(backend, Strip(sync.lines[k]), "ok")
           IN  user # NoUser /\ ((user.id \in sync.allow0) = inAllow)}

EntryLines(g) ==
    Cardinality({k \in 1..Len(g.lines) : g.lines[k] = GitignoreEntry})

\* C24 as the claim states it: step 5 of a setup run leaves a .gitignore
\* that exists and holds the line .dh.local.toml as many times as before,
\* or once when no line of the file was that line (or there was no file);
\* so it holds after any number of runs.
C24_AsClaimed ==
    [][pc = "gitignore"
          => /\ gitignore'.exists
             /\ EntryLines(gitignore') =
                   IF EntryLines(gitignore) = 0 THEN 1 ELSE EntryLines(gitignore)]_vars

\* ------------------------------------------------------------------------
\* C25: an install that found a frontend and a backend runs npm install in
\* the frontend path first; when that fails the exit status is 1 and nothing
\* else is run; when it succeeds uv sync --dev is run next, in the backend
\* path, and its failure gives exit status 1 as well (and the exit status is
\* 0 when both succeed).
C25_InstallFailFast ==
    (op.name = "install" /\ op.seen.has_frontend /\ op.seen.has_backend)
        => /\ Len(cmds) >= 1
           /\ cmds[1].cmd = "npm install"
           /\ cmds[1].cwd = "frontend_path"
           /\ ~cmds[1].ok => (op.exit = 1 /\ Len(cmds) = 1)
           /\ cmds[1].ok =>
                 /\ Len(cmds) = 2
                 /\ cmds[2].cmd = "uv sync --dev"
                 /\ cmds[2].cwd = "backend_path"
                 /\ op.exit = (IF cmds[2].ok THEN 0 ELSE 1)

\* an install with both projects ended with status 1 after npm install
\* failed, in a workspace that a setup had configured before
C25_Witness ==
    /\ op.name = "install"
    /\ op.seen.has_frontend
    /\ op.seen.has_backend
    /\ cmds = <<RanCommand("npm install", "frontend_path", FALSE)>>
    /\ op.exit = 1
    /\ dhFile.kind = "table"

====
